---- MODULE Spec2Model ----
(***************************************************************************)
(* One VirtualMachine node of the Lamport-clock simulation (src/vm.py),    *)
(* run by main.py: the scheduler thread (run), the listener thread         *)
(* (accept_connections), one handler thread per inbound connection         *)
(* (handle_client) and the orchestrator calling stop() from outside.       *)
(* The remote peers are the environment: they accept or refuse the node's  *)
(* connections and write their clock values on the inbound connections.    *)
(***************************************************************************)
EXTENDS Integers, Sequences, FiniteSets, TLC

VARIABLES
    logical_clock,     \* self.logical_clock
    message_queue,     \* self.message_queue (FIFO of decoded integers)
    running,           \* self.running
    peer_connections,  \* keys of self.peer_connections, in insertion order
    closed_socks,      \* peer ports whose outbound socket has been closed
    server_open,       \* self.server_socket is not closed
    sent,              \* per peer port: the payloads written, one per send()
    log,               \* the records the node's logger received, in order
    pc,                \* position of the scheduler thread in run()
    peer_idx,          \* connect_to_peers: index of the peer being connected
    retries,           \* connect_to_peers: retries left for that peer
    message,           \* process_message: the message just dequeued
    todo,              \* run: peers the current tick still sends to
    ticks_left,        \* loop iterations the run may still begin
    stop_pc,           \* per caller of stop(): position inside stop()
    it_used,           \* per caller: dict size the values() iterator was made on
    it_pos,            \* per caller: entries the iterator has yielded
    listener_pc,       \* position of the listener thread
    env_left,          \* events the node's environment may still cause
    handler_pc,        \* per inbound connection: position of its handler
    dequeued_size,     \* FIFO size right after the last get_nowait()
    received,          \* messages dequeued so far, in order
    preloaded,         \* messages on the FIFO when the run was first observed
    peer_ports,        \* self.peer_ports
    wire_in,           \* per inbound connection: bytes written, not yet read
    in_closed,         \* per inbound connection: the peer has closed its side
    data,              \* per handler: the bytes its last recv returned
    written,           \* per inbound connection: the values the peer has sent
    reads,             \* per inbound connection: the values its handler decoded
    enqueued           \* the puts on the FIFO, in order: connection and value

vars == << logical_clock, message_queue, running, peer_connections,
           closed_socks, server_open, sent, log, pc, peer_idx, retries,
           message, todo, ticks_left, stop_pc, it_used, it_pos,
           listener_pc, env_left, handler_pc, dequeued_size, received,
           preloaded, peer_ports, wire_in, in_closed, data, written, reads,
           enqueued >>

----------------------------------------------------------------------------
(* Bounds of the model *)

\* the node from its construction (Spec): ticks of the loop, and events of
\* the environment (a stop() call, a refused connection, an accept failure,
\* a message sent to the node)
MaxTicks == 2
MaxEnv == 2
\* the running node (SpecRun)
RunTicks == 3
RunMsgs == 2
\* capacity the model gives the FIFO
MaxQueue == 3
\* length of a preloaded FIFO (SpecDrain)
MaxDrain == 3
\* stop() called in succession (SpecSeq)
SeqStops == 2
\* arguments of a direct update_logical_clock call (SpecClock)
MaxClockIn == 9
\* connection attempts the peers may refuse (SpecSched, SpecConnect)
ConnectEnv == 10
DrawTicks == 2
LiveTicks == 1
LiveEnv == 1
WireTicks == 2
WireEnv == 3

(* Program constants *)

BasePort == 10000
NumVMs == 3
Retries == 5
RandLo == 1
RandHi == 10
RecvSize == 1024

\* Python's None for "no received time"; no clock value is negative
None == 0 - 1

\* main.py setup_vms: ports of all VMs, and the peers of VM 1
ports == [i \in 1..NumVMs |-> BasePort + (i - 1)]
port == ports[1]
MainPeers == SubSeq(ports, 2, NumVMs)

PeerSet == {MainPeers[i] : i \in 1..Len(MainPeers)}

\* inbound connections: one per peer (each peer connects once)
Conns == 1..(NumVMs - 1)

Callers == {"sched", "ext"}

\* values the remote peers write (their post-increment clocks)
PeerValues == {2, 10}

\* values the remote peers write on the byte stream
WireValues == {3, 12}

\* a byte that is no decimal digit ('x')
Garbage == 120

\* values of a preloaded FIFO
DrainValues == {2, 3, 7}

----------------------------------------------------------------------------
(* Wire encoding: str(n).encode() and int(data.decode()) *)

Digits == 48..57

\* a faulty encoding: the value is written as one raw byte, not as text
EncodeRaw(n) == << n % 256 >>

RECURSIVE Encode(_)
Encode(n) ==
    IF n < 10 THEN << 48 + n >>
    ELSE Append(Encode(n \div 10), 48 + (n % 10))

RECURSIVE DecodeDigits(_, _)
DecodeDigits(bs, acc) ==
    IF bs = << >> THEN acc
    ELSE DecodeDigits(Tail(bs), 10 * acc + (Head(bs) - 48))

\* int() accepts the payload: it is a non-empty run of decimal digits
Decodable(bs) == bs # << >> /\ \A i \in 1..Len(bs) : bs[i] \in Digits

Decode(bs) == DecodeDigits(bs, 0)

----------------------------------------------------------------------------
(* Clock Engine *)

Max(a, b) == IF a >= b THEN a ELSE b

\* a faulty rule: the received time is ignored
update_ignore_received(c, received_time) == c + 1

\* a faulty rule: a received time is merged without the increment
update_without_increment(c, received_time) ==
    IF received_time # None
    THEN Max(c, received_time)
    ELSE c + 1

update_logical_clock(c, received_time) ==
    IF received_time # None
    THEN Max(c, received_time) + 1
    ELSE c + 1

----------------------------------------------------------------------------
(* Telemetry: the records handed to self.logger. A record that is not an   *)
(* INTERNAL, SEND or RECEIVE event carries no clock value (None).          *)

Event(kind, clock, qlen, peer) ==
    [kind |-> kind, clock |-> clock, qlen |-> qlen, peer |-> peer]

InMap(p) == \E i \in 1..Len(peer_connections) : peer_connections[i] = p

Remove(s, p) == SelectSeq(s, LAMBDA x : x # p)

----------------------------------------------------------------------------
(* Initial state: VirtualMachine.__init__, before run() is called *)

\* the node as __init__ leaves it, with its clock at c (the tests set the
\* clock directly), the caller at `at` and the argument of its call m
Node(c, at, m) ==
    /\ logical_clock = c
    /\ message_queue = << >>
    /\ running = FALSE
    /\ peer_connections = << >>
    /\ closed_socks = {}
    /\ server_open = TRUE
    /\ sent = [p \in PeerSet |-> << >>]
    /\ log = << >>
    /\ pc = at
    /\ peer_idx = 1
    /\ retries = 0
    /\ message = m
    /\ todo = << >>
    /\ stop_pc = [t \in Callers |-> "idle"]
    /\ it_used = [t \in Callers |-> 0]
    /\ it_pos = [t \in Callers |-> 0]
    /\ listener_pc = "idle"
    /\ handler_pc = [c1 \in Conns |-> "none"]
    /\ dequeued_size = 0
    /\ received = << >>
    /\ preloaded = << >>
    /\ wire_in = [c1 \in Conns |-> << >>]
    /\ in_closed = [c1 \in Conns |-> FALSE]
    /\ data = [c1 \in Conns |-> << >>]
    /\ written = [c1 \in Conns |-> << >>]
    /\ reads = [c1 \in Conns |-> << >>]
    /\ enqueued = << >>

Fresh == peer_ports = MainPeers /\ Node(0, "init", None)

\* what the model lets the run and its environment still do
Budget(t, e) ==
    /\ ticks_left = t
    /\ env_left = e

Init == Fresh /\ Budget(MaxTicks, MaxEnv)

schedLocals == << peer_idx, retries, message, todo, ticks_left >>
stopVars == << stop_pc, it_used, it_pos >>
inboundVars == << listener_pc, handler_pc >>
ghostVars == << dequeued_size, received, preloaded >>
sockVars == << peer_connections, closed_socks, server_open, sent >>
wireVars == << wire_in, in_closed, data, written, reads, enqueued >>

----------------------------------------------------------------------------
(* run(): start, then connect_to_peers *)

\* run lines 156-157 with start lines 53-57: set the flag, launch the listener
RunStart ==
    /\ pc = "init"
    /\ IF ~running
       THEN /\ running' = TRUE
            /\ listener_pc' = "accept"
       ELSE UNCHANGED << running, listener_pc >>
    /\ pc' = "connect"
    /\ peer_idx' = 1
    /\ UNCHANGED << peer_ports, wireVars,
                    logical_clock, message_queue, sockVars, log, retries,
                    message, todo, ticks_left, stopVars, handler_pc, env_left,
                    ghostVars >>

\* a faulty peer loop: a peer is attempted whether or not it is connected
ConnectPeerNoSkip ==
    /\ pc = "connect"
    /\ IF peer_idx > Len(peer_ports)
       THEN /\ pc' = "loop"
            /\ UNCHANGED << peer_idx, retries >>
       ELSE /\ retries' = Retries
            /\ pc' = "retry"
            /\ UNCHANGED peer_idx
    /\ UNCHANGED << peer_ports, wireVars,
                    logical_clock, message_queue, running, sockVars, log,
                    message, todo, ticks_left, stopVars, inboundVars,
                    env_left, ghostVars >>

\* connect_to_peers lines 95-98: next peer of the list, skipped when connected
ConnectPeer ==
    /\ pc = "connect"
    /\ IF peer_idx > Len(peer_ports)
       THEN /\ pc' = "loop"
            /\ UNCHANGED << peer_idx, retries >>
       ELSE IF InMap(peer_ports[peer_idx])
            THEN /\ peer_idx' = peer_idx + 1
                 /\ UNCHANGED << pc, retries >>
            ELSE /\ retries' = Retries
                 /\ pc' = "retry"
                 /\ UNCHANGED peer_idx
    /\ UNCHANGED << peer_ports, wireVars,
                    logical_clock, message_queue, running, sockVars, log,
                    message, todo, ticks_left, stopVars, inboundVars,
                    env_left, ghostVars >>

\* a faulty retry loop: one attempt too many (retries >= 0)
ConnectCheckOffByOne ==
    /\ pc = "retry"
    /\ IF retries >= 0 /\ running
       THEN /\ pc' = "connecting"
            /\ UNCHANGED << peer_idx, retries >>
       ELSE /\ pc' = "connect"
            /\ peer_idx' = peer_idx + 1
            /\ retries' = 0
    /\ UNCHANGED << peer_ports, wireVars,
                    logical_clock, message_queue, running, sockVars, log,
                    message, todo, ticks_left, stopVars, inboundVars,
                    env_left, ghostVars >>

\* connect_to_peers line 99: while retries > 0 and self.running
ConnectCheck ==
    /\ pc = "retry"
    /\ IF retries > 0 /\ running
       THEN /\ pc' = "connecting"
            /\ UNCHANGED << peer_idx, retries >>
       ELSE /\ pc' = "connect"
            /\ peer_idx' = peer_idx + 1
            /\ retries' = 0
    /\ UNCHANGED << peer_ports, wireVars,
                    logical_clock, message_queue, running, sockVars, log,
                    message, todo, ticks_left, stopVars, inboundVars,
                    env_left, ghostVars >>

\* a faulty connect: the connection is recorded under the node's own port
ConnectOkOwnPort ==
    /\ pc = "connecting"
    /\ peer_connections' = Append(peer_connections, port)
    /\ log' = Append(log, Event("CONNECTED", None, 0, peer_ports[peer_idx]))
    /\ peer_idx' = peer_idx + 1
    /\ pc' = "connect"
    /\ retries' = 0
    /\ UNCHANGED << peer_ports, wireVars,
                    logical_clock, message_queue, running, closed_socks,
                    server_open, sent, message, todo, ticks_left,
                    stopVars, inboundVars, env_left, ghostVars >>

\* connect_to_peers lines 100-105: the attempt succeeds
ConnectOk ==
    /\ pc = "connecting"
    /\ peer_connections' = Append(peer_connections, peer_ports[peer_idx])
    /\ log' = Append(log, Event("CONNECTED", None, 0, peer_ports[peer_idx]))
    /\ peer_idx' = peer_idx + 1
    /\ pc' = "connect"
    /\ retries' = 0
    /\ UNCHANGED << peer_ports, wireVars,
                    logical_clock, message_queue, running, closed_socks,
                    server_open, sent, message, todo, ticks_left,
                    stopVars, inboundVars, env_left, ghostVars >>

\* connect_to_peers lines 106-109: the attempt fails
ConnectFail ==
    /\ pc = "connecting"
    /\ env_left > 0
    /\ env_left' = env_left - 1
    /\ log' = Append(log, Event("ERR_CONNECT", None, 0, peer_ports[peer_idx]))
    /\ retries' = retries - 1
    /\ pc' = "retry"
    /\ UNCHANGED << peer_ports, wireVars,
                    logical_clock, message_queue, running, sockVars,
                    peer_idx, message, todo, ticks_left, stopVars, inboundVars,
                    ghostVars >>

----------------------------------------------------------------------------
(* run(): the scheduler loop *)

\* a faulty dequeue: the newest message is taken instead of the oldest
DequeueLast ==
    /\ pc = "loop"
    /\ running
    /\ ticks_left > 0
    /\ message_queue # << >>
    /\ ticks_left' = ticks_left - 1
    /\ message' = message_queue[Len(message_queue)]
    /\ message_queue' = SubSeq(message_queue, 1, Len(message_queue) - 1)
    /\ dequeued_size' = Len(message_queue) - 1
    /\ received' = Append(received, message_queue[Len(message_queue)])
    /\ pc' = "qsize"
    /\ UNCHANGED << peer_ports, wireVars,
                    logical_clock, running, sockVars, log, peer_idx, retries,
                    todo, stopVars, inboundVars, env_left, preloaded >>

\* process_message lines 139-140 in a tick of run line 164-166: the FIFO is
\* not empty; message = self.message_queue.get_nowait()
Dequeue ==
    /\ pc = "loop"
    /\ running
    /\ ticks_left > 0
    /\ message_queue # << >>
    /\ ticks_left' = ticks_left - 1
    /\ message' = Head(message_queue)
    /\ message_queue' = Tail(message_queue)
    /\ dequeued_size' = Len(message_queue) - 1
    /\ received' = Append(received, Head(message_queue))
    /\ pc' = "qsize"
    /\ UNCHANGED << peer_ports, wireVars,
                    logical_clock, running, sockVars, log, peer_idx, retries,
                    todo, stopVars, inboundVars, env_left, preloaded >>

\* a faulty receive: the message is merged into the clock with no record
ReceiveSilent ==
    /\ pc = "qsize"
    /\ logical_clock' = update_logical_clock(logical_clock, message)
    /\ message' = None
    /\ pc' = "loop"
    /\ UNCHANGED << peer_ports, wireVars,
                    message_queue, running, sockVars, log, peer_idx, retries,
                    todo, ticks_left, stopVars, inboundVars, env_left,
                    ghostVars >>

\* a faulty receive: the record is written before the clock is updated
ReceiveStale ==
    /\ pc = "qsize"
    /\ logical_clock' = update_logical_clock(logical_clock, message)
    /\ log' = Append(log, Event("RECEIVE", logical_clock, Len(message_queue), 0))
    /\ message' = None
    /\ pc' = "loop"
    /\ UNCHANGED << peer_ports, wireVars,
                    message_queue, running, sockVars, peer_idx, retries, todo,
                    ticks_left, stopVars, inboundVars, env_left,
                    ghostVars >>

\* process_message lines 141-144: qsize(), clock update, RECEIVE record
Receive ==
    /\ pc = "qsize"
    /\ logical_clock' = update_logical_clock(logical_clock, message)
    /\ log' = Append(log, Event("RECEIVE", logical_clock', Len(message_queue), 0))
    /\ message' = None
    /\ pc' = "loop"
    /\ UNCHANGED << peer_ports, wireVars,
                    message_queue, running, sockVars, peer_idx, retries, todo,
                    ticks_left, stopVars, inboundVars, env_left,
                    ghostVars >>

\* internal_event lines 151-152
internal_event ==
    /\ logical_clock' = update_logical_clock(logical_clock, None)
    /\ log' = Append(log, Event("INTERNAL", logical_clock', 0, 0))

\* a faulty choice: a draw of 2 always sends to the first peer
TargetsFirst(action) ==
    IF action \in {1, 2} /\ peer_ports # << >> THEN << peer_ports[1] >>
    ELSE IF action = 3 /\ peer_ports # << >> THEN peer_ports
    ELSE << >>

\* run lines 167-179: the peers the drawn action sends to; << >> is an internal event
Targets(action) ==
    IF action = 1 /\ peer_ports # << >> THEN << peer_ports[1] >>
    ELSE IF action = 2 /\ peer_ports # << >>
         THEN IF Len(peer_ports) >= 2 THEN << peer_ports[2] >>
                                      ELSE << peer_ports[1] >>
    ELSE IF action = 3 /\ peer_ports # << >> THEN peer_ports
    ELSE << >>

\* a faulty tick: the action is drawn without looking at the FIFO
DrawAnyway ==
    /\ pc = "loop"
    /\ running
    /\ ticks_left > 0
    /\ ticks_left' = ticks_left - 1
    /\ \E action \in RandLo..RandHi :
          IF Targets(action) # << >>
          THEN /\ todo' = Targets(action)
               /\ pc' = "send"
               /\ UNCHANGED << logical_clock, log >>
          ELSE /\ internal_event
               /\ pc' = "loop"
               /\ UNCHANGED todo
    /\ UNCHANGED << peer_ports, wireVars,
                    message_queue, running, sockVars, peer_idx, retries,
                    message, stopVars, inboundVars, env_left, ghostVars >>

\* run lines 164-179: a tick whose FIFO is empty, with the action it drew
DrawAction(action) ==
    /\ pc = "loop"
    /\ running
    /\ ticks_left > 0
    /\ message_queue = << >>
    /\ ticks_left' = ticks_left - 1
    /\ IF Targets(action) # << >>
       THEN /\ todo' = Targets(action)
            /\ pc' = "send"
            /\ UNCHANGED << logical_clock, log >>
       ELSE /\ internal_event
            /\ pc' = "loop"
            /\ UNCHANGED todo
    /\ UNCHANGED << peer_ports, wireVars,
                    message_queue, running, sockVars, peer_idx, retries,
                    message, stopVars, inboundVars, env_left, ghostVars >>

\* run line 167: action = random.randint(1, 10)
Draw == \E action \in RandLo..RandHi : DrawAction(action)

\* the scheduler's position after one send_message of the tick is over
AfterSend ==
    /\ todo' = Tail(todo)
    /\ pc' = IF Tail(todo) = << >> THEN "loop" ELSE "send"

\* a faulty send: the clock is advanced before the connection is looked up
SendNotConnectedTick ==
    /\ pc = "send"
    /\ ~InMap(Head(todo))
    /\ logical_clock' = update_logical_clock(logical_clock, None)
    /\ log' = Append(log, Event("ERR_NOT_CONNECTED", None, 0, Head(todo)))
    /\ AfterSend
    /\ UNCHANGED << peer_ports, wireVars,
                    message_queue, running, sockVars,
                    peer_idx, retries, message, ticks_left, stopVars, inboundVars,
                    env_left, ghostVars >>

\* a faulty send: a peer without an entry is connected again on the spot
SendReconnect ==
    /\ pc = "send"
    /\ ~InMap(Head(todo))
    /\ peer_connections' = Append(peer_connections, Head(todo))
    /\ closed_socks' = closed_socks \ {Head(todo)}
    /\ log' = Append(log, Event("ERR_NOT_CONNECTED", None, 0, Head(todo)))
    /\ AfterSend
    /\ UNCHANGED << peer_ports, wireVars,
                    logical_clock, message_queue, running, server_open, sent,
                    peer_idx, retries, message, ticks_left, stopVars,
                    inboundVars, env_left, ghostVars >>

\* send_message lines 120-122: no recorded connection
SendNotConnected ==
    /\ pc = "send"
    /\ ~InMap(Head(todo))
    /\ log' = Append(log, Event("ERR_NOT_CONNECTED", None, 0, Head(todo)))
    /\ AfterSend
    /\ UNCHANGED << peer_ports, wireVars,
                    logical_clock, message_queue, running, sockVars,
                    peer_idx, retries, message, ticks_left, stopVars, inboundVars,
                    env_left, ghostVars >>

\* send_message lines 123-127: the write succeeds
SendOk ==
    /\ pc = "send"
    /\ InMap(Head(todo))
    /\ Head(todo) \notin closed_socks
    /\ logical_clock' = update_logical_clock(logical_clock, None)
    /\ sent' = [sent EXCEPT ![Head(todo)] = Append(@, Encode(logical_clock'))]
    /\ log' = Append(log, Event("SEND", logical_clock', 0, Head(todo)))
    /\ AfterSend
    /\ UNCHANGED << peer_ports, wireVars,
                    message_queue, running, peer_connections, closed_socks,
                    server_open, peer_idx, retries, message, ticks_left, stopVars,
                    inboundVars, env_left, ghostVars >>

\* a faulty failure path: the connection is closed but its entry is kept
SendFailKeep ==
    /\ pc = "send"
    /\ InMap(Head(todo))
    /\ logical_clock' = update_logical_clock(logical_clock, None)
    /\ log' = Append(log, Event("ERR_SEND", None, 0, Head(todo)))
    /\ closed_socks' = closed_socks \cup {Head(todo)}
    /\ AfterSend
    /\ UNCHANGED << peer_ports, wireVars,
                    message_queue, running, peer_connections, server_open, sent,
                    peer_idx, retries, message, ticks_left, stopVars, inboundVars,
                    env_left, ghostVars >>

\* a faulty failure path: the clock is advanced only by a write that succeeds
SendFailNoTick ==
    /\ pc = "send"
    /\ InMap(Head(todo))
    /\ log' = Append(log, Event("ERR_SEND", None, 0, Head(todo)))
    /\ closed_socks' = closed_socks \cup {Head(todo)}
    /\ peer_connections' = Remove(peer_connections, Head(todo))
    /\ AfterSend
    /\ UNCHANGED << peer_ports, wireVars,
                    logical_clock, message_queue, running, server_open, sent,
                    peer_idx, retries, message, ticks_left, stopVars,
                    inboundVars, env_left, ghostVars >>

\* a faulty failure path: the error leaves the tick, its other sends are lost
SendFailAbort ==
    /\ pc = "send"
    /\ InMap(Head(todo))
    /\ logical_clock' = update_logical_clock(logical_clock, None)
    /\ log' = Append(log, Event("ERR_SEND", None, 0, Head(todo)))
    /\ closed_socks' = closed_socks \cup {Head(todo)}
    /\ peer_connections' = Remove(peer_connections, Head(todo))
    /\ todo' = << >>
    /\ pc' = "loop"
    /\ UNCHANGED << peer_ports, wireVars,
                    message_queue, running, server_open, sent, peer_idx,
                    retries, message, ticks_left, stopVars, inboundVars,
                    env_left, ghostVars >>

\* send_message lines 123-134: the write raises; close and forget the connection
SendFail ==
    /\ pc = "send"
    /\ InMap(Head(todo))
    /\ logical_clock' = update_logical_clock(logical_clock, None)
    /\ log' = Append(log, Event("ERR_SEND", None, 0, Head(todo)))
    /\ closed_socks' = closed_socks \cup {Head(todo)}
    /\ peer_connections' = Remove(peer_connections, Head(todo))
    /\ AfterSend
    /\ UNCHANGED << peer_ports, wireVars,
                    message_queue, running, server_open, sent, peer_idx,
                    retries, message, ticks_left, stopVars, inboundVars,
                    env_left, ghostVars >>

----------------------------------------------------------------------------
(* stop(), run by the scheduler's finally clause ("sched") or called by   *)
(* the orchestrator from another thread ("ext")                            *)

\* stop lines 190-191: clear the flag, start iterating peer_connections.values()
StopBegin(t) ==
    /\ running' = FALSE
    /\ it_used' = [it_used EXCEPT ![t] = Len(peer_connections)]
    /\ it_pos' = [it_pos EXCEPT ![t] = 0]
    /\ stop_pc' = [stop_pc EXCEPT ![t] = "iter"]

\* a faulty exit: the loop is left without the call of stop()
LoopExitNoStop ==
    /\ pc = "loop"
    /\ ~running
    /\ pc' = "exited"
    /\ UNCHANGED << peer_ports, wireVars,
                    logical_clock, message_queue, running, sockVars, log,
                    schedLocals, stopVars, inboundVars, env_left, ghostVars >>

\* run lines 164, 185-186: the loop sees the flag cleared; finally: self.stop()
LoopExit ==
    /\ pc = "loop"
    /\ ~running
    /\ pc' = "finally"
    /\ StopBegin("sched")
    /\ UNCHANGED << peer_ports, wireVars,
                    logical_clock, message_queue, sockVars, log,
                    schedLocals, inboundVars, env_left, ghostVars >>

\* run lines 163-186: an exception raised inside a tick leaves the loop; it
\* is logged by the except clause and the finally clause calls self.stop()
LoopRaise ==
    /\ pc \in {"loop", "qsize", "send"}
    /\ env_left > 0
    /\ env_left' = env_left - 1
    /\ log' = Append(log, Event("ERR_LOOP", None, 0, 0))
    /\ pc' = "finally"
    /\ StopBegin("sched")
    /\ UNCHANGED << peer_ports, wireVars,
                    logical_clock, message_queue, sockVars,
                    schedLocals, inboundVars, ghostVars >>

\* main.py signal_handler line 67 / the orchestrator: vm.stop()
ExtStop ==
    /\ stop_pc["ext"] \in {"idle", "done"}
    /\ env_left > 0
    /\ env_left' = env_left - 1
    /\ StopBegin("ext")
    /\ UNCHANGED << peer_ports, wireVars,
                    logical_clock, message_queue, sockVars, log, pc,
                    schedLocals, inboundVars, ghostVars >>

\* a faulty stop: the iterator yields the next socket, which is left open
StopIterSkip(t) ==
    /\ stop_pc[t] = "iter"
    /\ it_used[t] = Len(peer_connections)
    /\ it_pos[t] < Len(peer_connections)
    /\ it_pos' = [it_pos EXCEPT ![t] = @ + 1]
    /\ UNCHANGED << peer_ports, wireVars,
                    logical_clock, message_queue, running, sockVars, log, pc,
                    schedLocals, stop_pc, it_used, inboundVars,
                    env_left, ghostVars >>

\* stop lines 191-195: the iterator yields the next socket, which is closed
StopIterClose(t) ==
    /\ stop_pc[t] = "iter"
    /\ it_used[t] = Len(peer_connections)
    /\ it_pos[t] < Len(peer_connections)
    /\ closed_socks' = closed_socks \cup {peer_connections[it_pos[t] + 1]}
    /\ it_pos' = [it_pos EXCEPT ![t] = @ + 1]
    /\ UNCHANGED << peer_ports, wireVars,
                    logical_clock, message_queue, running, peer_connections,
                    server_open, sent, log, pc, schedLocals, stop_pc, it_used,
                    inboundVars, env_left, ghostVars >>

\* stop line 191: the dict changed size since the iterator was made; the
\* RuntimeError is raised outside the try blocks and leaves stop()
StopIterRaise(t) ==
    /\ stop_pc[t] = "iter"
    /\ it_used[t] # Len(peer_connections)
    /\ stop_pc' = [stop_pc EXCEPT ![t] = "raised"]
    /\ pc' = IF t = "sched" THEN "crashed" ELSE pc
    /\ it_used' = [it_used EXCEPT ![t] = 0]
    /\ it_pos' = [it_pos EXCEPT ![t] = 0]
    /\ UNCHANGED << peer_ports, wireVars,
                    logical_clock, message_queue, running, sockVars, log,
                    schedLocals, inboundVars,
                    env_left, ghostVars >>

\* stop lines 191, 196-199: the iterator is exhausted; close the listening
\* socket; stop() returns
StopServer(t) ==
    /\ stop_pc[t] = "iter"
    /\ it_used[t] = Len(peer_connections)
    /\ it_pos[t] >= Len(peer_connections)
    /\ server_open' = FALSE
    /\ stop_pc' = [stop_pc EXCEPT ![t] = "done"]
    /\ pc' = IF t = "sched" THEN "exited" ELSE pc
    /\ it_used' = [it_used EXCEPT ![t] = 0]
    /\ it_pos' = [it_pos EXCEPT ![t] = 0]
    /\ UNCHANGED << peer_ports, wireVars,
                    logical_clock, message_queue, running, peer_connections,
                    closed_socks, sent, log, schedLocals,
                    inboundVars, env_left, ghostVars >>

----------------------------------------------------------------------------
(* Inbound Channel: accept_connections and handle_client. One action is    *)
(* one iteration of the thread's loop, from its test of self.running.      *)

\* accept_connections lines 62-67: a peer connected; start its handler
Accept(c) ==
    /\ listener_pc = "accept"
    /\ running
    /\ server_open
    /\ handler_pc[c] = "none"
    /\ handler_pc' = [handler_pc EXCEPT ![c] = "recv"]
    /\ UNCHANGED << peer_ports, wireVars,
                    logical_clock, message_queue, running, sockVars, log, pc,
                    schedLocals, stopVars, listener_pc, env_left, ghostVars >>

\* a faulty listener: an accept failure is logged and ends the loop
AcceptErrorExit ==
    /\ listener_pc = "accept"
    /\ running
    /\ ~server_open
    /\ env_left > 0
    /\ env_left' = env_left - 1
    /\ log' = Append(log, Event("ERR_ACCEPT", None, 0, 0))
    /\ listener_pc' = "exit"
    /\ UNCHANGED << peer_ports, wireVars,
                    logical_clock, message_queue, running, sockVars, pc,
                    schedLocals, stopVars, handler_pc,
                    ghostVars >>

\* accept_connections lines 62-64, 70-72: accept() raises on the closed
\* socket while the node is running; the error is logged, the loop goes on
AcceptError ==
    /\ listener_pc = "accept"
    /\ running
    /\ ~server_open
    /\ env_left > 0
    /\ env_left' = env_left - 1
    /\ log' = Append(log, Event("ERR_ACCEPT", None, 0, 0))
    /\ UNCHANGED << peer_ports, wireVars,
                    logical_clock, message_queue, running, sockVars, pc,
                    schedLocals, stopVars, listener_pc, handler_pc,
                    ghostVars >>

\* accept_connections line 62: the flag is cleared, the listener ends
ListenerExit ==
    /\ listener_pc = "accept"
    /\ ~running
    /\ listener_pc' = "exit"
    /\ UNCHANGED << peer_ports, wireVars,
                    logical_clock, message_queue, running, sockVars, log, pc,
                    schedLocals, stopVars, handler_pc,
                    env_left, ghostVars >>

\* a faulty handler: it merges the received time into the clock itself
HandlerDataClock(c) ==
    /\ handler_pc[c] = "recv"
    /\ running
    /\ Len(message_queue) < MaxQueue
    /\ env_left > 0
    /\ env_left' = env_left - 1
    /\ \E v \in PeerValues :
          /\ message_queue' = Append(message_queue, Decode(Encode(v)))
          /\ logical_clock' = update_logical_clock(logical_clock, Decode(Encode(v)))
    /\ UNCHANGED << peer_ports, wireVars,
                    running, sockVars, log, pc, schedLocals,
                    stopVars, listener_pc, handler_pc, ghostVars >>

\* handle_client lines 77-84: recv returns the payload a peer's send_message
\* wrote (the decimal text of its clock); int() of it is put on the FIFO
HandlerData(c) ==
    /\ handler_pc[c] = "recv"
    /\ running
    /\ Len(message_queue) < MaxQueue
    /\ env_left > 0
    /\ env_left' = env_left - 1
    /\ \E v \in PeerValues :
          /\ Decodable(Encode(v))
          /\ message_queue' = Append(message_queue, Decode(Encode(v)))
    /\ UNCHANGED << peer_ports, wireVars,
                    logical_clock, running, sockVars, log, pc, schedLocals,
                    stopVars, listener_pc, handler_pc, ghostVars >>

\* handle_client lines 77, 91: the flag is cleared; close the socket
HandlerExit(c) ==
    /\ handler_pc[c] = "recv"
    /\ ~running
    /\ handler_pc' = [handler_pc EXCEPT ![c] = "closed"]
    /\ UNCHANGED << peer_ports, wireVars,
                    logical_clock, message_queue, running, sockVars, log, pc,
                    schedLocals, stopVars, listener_pc, env_left, ghostVars >>

----------------------------------------------------------------------------
(* The byte stream of an inbound connection. A peer's sendall appends its  *)
(* bytes to the stream; recv(1024) returns any non-empty prefix of what    *)
(* has arrived, whatever the boundaries of the writes.                      *)

Min(a, b) == IF a <= b THEN a ELSE b

\* the peer's send_message lines 124-126: sendall(str(clock).encode())
PeerWrite(c) ==
    /\ handler_pc[c] = "recv"
    /\ ~in_closed[c]
    /\ env_left > 0
    /\ env_left' = env_left - 1
    /\ \E v \in WireValues :
          /\ wire_in' = [wire_in EXCEPT ![c] = @ \o Encode(v)]
          /\ written' = [written EXCEPT ![c] = Append(@, v)]
    /\ UNCHANGED << peer_ports, in_closed, data, reads, enqueued,
                    logical_clock, message_queue, running, sockVars, log, pc,
                    schedLocals, stopVars, inboundVars, ghostVars >>

\* a client writes bytes that are not the decimal text of an integer
PeerGarbage(c) ==
    /\ handler_pc[c] = "recv"
    /\ ~in_closed[c]
    /\ env_left > 0
    /\ env_left' = env_left - 1
    /\ wire_in' = [wire_in EXCEPT ![c] = Append(@, Garbage)]
    /\ UNCHANGED << peer_ports, in_closed, data, written, reads, enqueued,
                    logical_clock, message_queue, running, sockVars, log, pc,
                    schedLocals, stopVars, inboundVars, ghostVars >>

\* the peer closes its side of the connection (its stop() lines 191-193)
PeerClose(c) ==
    /\ handler_pc[c] = "recv"
    /\ ~in_closed[c]
    /\ env_left > 0
    /\ env_left' = env_left - 1
    /\ in_closed' = [in_closed EXCEPT ![c] = TRUE]
    /\ UNCHANGED << peer_ports, wire_in, data, written, reads, enqueued,
                    logical_clock, message_queue, running, sockVars, log, pc,
                    schedLocals, stopVars, inboundVars, ghostVars >>

\* what a recv(1024) may return of the bytes that have arrived
Chunks(c) == 1..Min(Len(wire_in[c]), RecvSize)

\* a faulty handler: the decoded value is put at the front of the FIFO
HandlerReadFront(c) ==
    /\ handler_pc[c] = "recv"
    /\ running
    /\ \E n \in Chunks(c) :
          /\ Decodable(SubSeq(wire_in[c], 1, n))
          /\ data' = [data EXCEPT ![c] = SubSeq(wire_in[c], 1, n)]
          /\ wire_in' = [wire_in EXCEPT ![c] = SubSeq(@, n + 1, Len(@))]
    /\ message_queue' = << Decode(data'[c]) >> \o message_queue
    /\ reads' = [reads EXCEPT ![c] = Append(@, Decode(data'[c]))]
    /\ enqueued' = Append(enqueued, [conn |-> c, value |-> Decode(data'[c])])
    /\ UNCHANGED << peer_ports, in_closed, written,
                    logical_clock, running, sockVars, log, pc, schedLocals,
                    stopVars, inboundVars, env_left, ghostVars >>

\* handle_client lines 77-84: recv returns bytes that int() accepts; the
\* value is put on the FIFO
HandlerRead(c) ==
    /\ handler_pc[c] = "recv"
    /\ running
    /\ \E n \in Chunks(c) :
          /\ Decodable(SubSeq(wire_in[c], 1, n))
          /\ data' = [data EXCEPT ![c] = SubSeq(wire_in[c], 1, n)]
          /\ wire_in' = [wire_in EXCEPT ![c] = SubSeq(@, n + 1, Len(@))]
    /\ message_queue' = Append(message_queue, Decode(data'[c]))
    /\ reads' = [reads EXCEPT ![c] = Append(@, Decode(data'[c]))]
    /\ enqueued' = Append(enqueued, [conn |-> c, value |-> Decode(data'[c])])
    /\ UNCHANGED << peer_ports, in_closed, written,
                    logical_clock, running, sockVars, log, pc, schedLocals,
                    stopVars, inboundVars, env_left, ghostVars >>

\* a faulty handler: a payload that does not decode is put as 0, and the
\* handler goes on reading
HandlerBadDataZero(c) ==
    /\ handler_pc[c] = "recv"
    /\ running
    /\ \E n \in Chunks(c) :
          /\ ~Decodable(SubSeq(wire_in[c], 1, n))
          /\ data' = [data EXCEPT ![c] = SubSeq(wire_in[c], 1, n)]
          /\ wire_in' = [wire_in EXCEPT ![c] = SubSeq(@, n + 1, Len(@))]
    /\ message_queue' = Append(message_queue, 0)
    /\ enqueued' = Append(enqueued, [conn |-> c, value |-> 0])
    /\ UNCHANGED << peer_ports, in_closed, written, reads,
                    logical_clock, running, sockVars, log, pc, schedLocals,
                    stopVars, inboundVars, env_left, ghostVars >>

\* handle_client lines 79-83, 87-91: int(data.decode()) raises; the error is
\* logged while the node runs, the loop is left and the socket closed
HandlerBadData(c) ==
    /\ handler_pc[c] = "recv"
    /\ running
    /\ \E n \in Chunks(c) :
          /\ ~Decodable(SubSeq(wire_in[c], 1, n))
          /\ data' = [data EXCEPT ![c] = SubSeq(wire_in[c], 1, n)]
          /\ wire_in' = [wire_in EXCEPT ![c] = SubSeq(@, n + 1, Len(@))]
    /\ log' = IF running
              THEN Append(log, Event("ERR_HANDLER", None, 0, 0))
              ELSE log
    /\ handler_pc' = [handler_pc EXCEPT ![c] = "closed"]
    /\ UNCHANGED << peer_ports, in_closed, written, reads, enqueued,
                    logical_clock, message_queue, running, sockVars, pc,
                    schedLocals, stopVars, listener_pc, env_left, ghostVars >>

\* handle_client lines 79-81, 91: recv returns b"" (the peer has closed and
\* every byte was read); the loop is left and the socket closed
HandlerEof(c) ==
    /\ handler_pc[c] = "recv"
    /\ running
    /\ wire_in[c] = << >>
    /\ in_closed[c]
    /\ data' = [data EXCEPT ![c] = << >>]
    /\ handler_pc' = [handler_pc EXCEPT ![c] = "closed"]
    /\ UNCHANGED << peer_ports, wire_in, in_closed, written, reads, enqueued,
                    logical_clock, message_queue, running, sockVars, log, pc,
                    schedLocals, stopVars, listener_pc, env_left, ghostVars >>

----------------------------------------------------------------------------
(* The node from its construction, under every interleaving of its threads *)

Scheduler ==
    \/ RunStart \/ ConnectPeer \/ ConnectCheck \/ ConnectOk \/ ConnectFail
    \/ Dequeue \/ Receive \/ Draw
    \/ SendNotConnected \/ SendOk \/ SendFail \/ LoopExit

Stopping ==
    \E t \in Callers : StopIterClose(t) \/ StopIterRaise(t) \/ StopServer(t)

Listener == AcceptError \/ ListenerExit \/ \E c \in Conns : Accept(c)

Handlers == \E c \in Conns : HandlerData(c) \/ HandlerExit(c)

Next == Scheduler \/ ExtStop \/ Stopping \/ Listener \/ Handlers

Spec == Init /\ [][Next]_vars

----------------------------------------------------------------------------
(* The running node: connect_to_peers has returned with the peers of       *)
(* `connected` recorded, every peer has connected to the node, and the     *)
(* handlers have put the messages q on the FIFO before the first tick.     *)

RECURSIVE ConnectLog(_, _)
ConnectLog(ps, connected) ==
    IF ps = << >> THEN << >>
    ELSE (IF Head(ps) \in connected
          THEN << Event("CONNECTED", None, 0, Head(ps)) >>
          ELSE [i \in 1..Retries |-> Event("ERR_CONNECT", None, 0, Head(ps))])
         \o ConnectLog(Tail(ps), connected)

Steady(connected, q) ==
    /\ logical_clock = 0
    /\ message_queue = q
    /\ running = TRUE
    /\ peer_connections = SelectSeq(peer_ports, LAMBDA p : p \in connected)
    /\ closed_socks = {}
    /\ server_open = TRUE
    /\ sent = [p \in PeerSet |-> << >>]
    /\ log = ConnectLog(peer_ports, connected)
    /\ pc = "loop"
    /\ peer_idx = Len(peer_ports) + 1
    /\ retries = 0
    /\ message = None
    /\ todo = << >>
    /\ stop_pc = [t \in Callers |-> "idle"]
    /\ it_used = [t \in Callers |-> 0]
    /\ it_pos = [t \in Callers |-> 0]
    /\ listener_pc = "accept"
    /\ handler_pc = [c \in Conns |-> "recv"]
    /\ dequeued_size = 0
    /\ received = << >>
    /\ preloaded = q
    /\ wire_in = [c \in Conns |-> << >>]
    /\ in_closed = [c \in Conns |-> FALSE]
    /\ data = [c \in Conns |-> << >>]
    /\ written = [c \in Conns |-> << >>]
    /\ reads = [c \in Conns |-> << >>]
    /\ enqueued = << >>

InitRun ==
    /\ peer_ports = MainPeers
    /\ \E connected \in SUBSET PeerSet : Steady(connected, << >>)
    /\ Budget(RunTicks, RunMsgs)

NextRun ==
    \/ Dequeue \/ Receive \/ Draw
    \/ SendNotConnected \/ SendOk \/ SendFail
    \/ \E c \in Conns : HandlerData(c)

SpecRun == InitRun /\ [][NextRun]_vars

----------------------------------------------------------------------------
(* Repeated process_message() on a preloaded FIFO *)

Preloads == UNION {[1..n -> DrainValues] : n \in 0..MaxDrain}

InitDrain ==
    /\ peer_ports = MainPeers
    /\ \E q \in Preloads : Steady(PeerSet, q)
    /\ Budget(MaxDrain, 0)

NextDrain == Dequeue \/ Receive

SpecDrain == InitDrain /\ [][NextDrain]_vars

----------------------------------------------------------------------------
(* update_logical_clock called directly, on any clock with any argument *)

InitClock ==
    /\ peer_ports = MainPeers
    /\ \E c \in 0..MaxClockIn : \E r \in {None} \cup (0..MaxClockIn) :
          Node(c, "update", r)
    /\ Budget(0, 0)

\* a caller's self.update_logical_clock(received_time)
UpdateCall ==
    /\ pc = "update"
    /\ logical_clock' = update_logical_clock(logical_clock, message)
    /\ pc' = "updated"
    /\ UNCHANGED << peer_ports, wireVars,
                    message_queue, running, sockVars, log, schedLocals,
                    stopVars, inboundVars, env_left, ghostVars >>

SpecClock == InitClock /\ [][UpdateCall]_vars

----------------------------------------------------------------------------
(* stop() run without interleaving: while a stop() call is in progress no  *)
(* other thread of the node takes a step. The calls are made on a node     *)
(* that was only constructed, or on the running node.                      *)

StopInProgress == \E t \in Callers : stop_pc[t] = "iter"

InitSeq ==
    /\ peer_ports = MainPeers
    /\ Fresh \/ \E connected \in SUBSET PeerSet : Steady(connected, << >>)
    /\ Budget(MaxTicks, SeqStops)

NextSeq ==
    \/ /\ ~StopInProgress
       /\ \/ NextRun \/ LoopExit \/ ExtStop
          \/ ListenerExit \/ \E c \in Conns : HandlerExit(c)
    \/ \E t \in Callers : StopIterClose(t) \/ StopServer(t)

SpecSeq == InitSeq /\ [][NextSeq]_vars

----------------------------------------------------------------------------
(* One node of a pair of mutual peers: its only peer is the other node,    *)
(* which is running and listening, so it accepts the node's connection and *)
(* connects to the node in turn.                                           *)

InitPair ==
    /\ \E p \in PeerSet : peer_ports = << p >>
    /\ Node(0, "init", None)
    /\ Budget(MaxTicks, MaxEnv)

NextPair ==
    \/ RunStart \/ ConnectPeer \/ ConnectCheck \/ ConnectOk
    \/ Dequeue \/ Receive \/ Draw
    \/ SendNotConnected \/ SendOk \/ SendFail
    \/ \E c \in 1..Len(peer_ports) : Accept(c) \/ HandlerData(c)

SpecPair == InitPair /\ [][NextPair]_vars

----------------------------------------------------------------------------
(* The scheduler thread alone, from construction: run() with peers that    *)
(* may refuse connection attempts, no inbound message and no stop(). The   *)
(* thread keeps being scheduled.                                           *)

InitSched == Fresh /\ Budget(MaxTicks, ConnectEnv)

NextSched ==
    \/ RunStart \/ ConnectPeer \/ ConnectCheck \/ ConnectOk \/ ConnectFail
    \/ Draw \/ SendNotConnected \/ SendOk \/ SendFail

SpecSched == InitSched /\ [][NextSched]_vars /\ WF_vars(NextSched)

----------------------------------------------------------------------------
(* connect_to_peers() called directly, any number of times, on a started   *)
(* node that an earlier call left with any subset of its peers connected   *)

\* a call of connect_to_peers() from outside run(), line 95: the first peer
ConnectCall ==
    /\ pc = "loop"
    /\ pc' = "connect"
    /\ peer_idx' = 1
    /\ UNCHANGED << peer_ports, wireVars,
                    logical_clock, message_queue, running, sockVars, log,
                    retries, message, todo, ticks_left, stopVars, inboundVars,
                    env_left, ghostVars >>

InitConnect ==
    /\ peer_ports = MainPeers
    /\ \E connected \in SUBSET PeerSet : Steady(connected, << >>)
    /\ Budget(0, ConnectEnv)

NextConnect ==
    \/ ConnectCall
    \/ ConnectPeer \/ ConnectCheck \/ ConnectOk \/ ConnectFail

SpecConnect == InitConnect /\ [][NextConnect]_vars

----------------------------------------------------------------------------
(* The running node and the byte streams of its inbound connections: the   *)
(* peers write, the handlers read, the scheduler processes the FIFO.       *)

InitWire ==
    /\ peer_ports = MainPeers
    /\ Steady({}, << >>)
    /\ Budget(WireTicks, WireEnv)

NextWire ==
    \/ Dequeue \/ Receive
    \/ \E c \in Conns :
          \/ PeerWrite(c) \/ PeerGarbage(c) \/ PeerClose(c)
          \/ HandlerRead(c) \/ HandlerBadData(c) \/ HandlerEof(c)

SpecWire == InitWire /\ [][NextWire]_vars

----------------------------------------------------------------------------
(* The node from its construction under fair scheduling: every thread that *)
(* can take a step eventually takes one. The loops of the listener and of  *)
(* the handlers wake at least every second (settimeout(1.0)); the calls of *)
(* the environment (stop(), refusals, messages, exceptions) are not forced.*)

StopSteps(t) == StopIterClose(t) \/ StopIterRaise(t) \/ StopServer(t)

HandlerSteps(c) == HandlerData(c) \/ HandlerExit(c)

NextLive == Next \/ LoopRaise

Fairness ==
    /\ WF_vars(Scheduler)
    /\ WF_vars(Listener)
    /\ \A t \in Callers : WF_vars(StopSteps(t))
    /\ \A c \in Conns : WF_vars(HandlerSteps(c))

\* the node on which stop() was called, and has returned, before run()
Halted ==
    /\ logical_clock = 0
    /\ message_queue = << >>
    /\ running = FALSE
    /\ peer_connections = << >>
    /\ closed_socks = {}
    /\ server_open = FALSE
    /\ sent = [p \in PeerSet |-> << >>]
    /\ log = << >>
    /\ pc = "init"
    /\ peer_idx = 1
    /\ retries = 0
    /\ message = None
    /\ todo = << >>
    /\ stop_pc = [t \in Callers |-> IF t = "ext" THEN "done" ELSE "idle"]
    /\ it_used = [t \in Callers |-> 0]
    /\ it_pos = [t \in Callers |-> 0]
    /\ listener_pc = "idle"
    /\ handler_pc = [c \in Conns |-> "none"]
    /\ dequeued_size = 0
    /\ received = << >>
    /\ preloaded = << >>
    /\ wire_in = [c \in Conns |-> << >>]
    /\ in_closed = [c \in Conns |-> FALSE]
    /\ data = [c \in Conns |-> << >>]
    /\ written = [c \in Conns |-> << >>]
    /\ reads = [c \in Conns |-> << >>]
    /\ enqueued = << >>

InitLive ==
    /\ peer_ports = MainPeers
    /\ \/ Node(0, "init", None)
       \/ Halted
       \/ Steady({}, << >>)
    /\ Budget(LiveTicks, LiveEnv)

SpecLive == InitLive /\ [][NextLive]_vars /\ Fairness

----------------------------------------------------------------------------
(* The scheduler of a running node with none, one or two configured peers, *)
(* each connected or not, and an empty FIFO at every tick.                 *)

Configs == {SubSeq(MainPeers, 1, n) : n \in 0..Len(MainPeers)}

InitDraw ==
    /\ peer_ports \in Configs
    /\ \E connected \in SUBSET {peer_ports[i] : i \in 1..Len(peer_ports)} :
          Steady(connected, << >>)
    /\ Budget(DrawTicks, 0)

NextDraw == Draw \/ SendNotConnected \/ SendOk \/ SendFail

SpecDraw == InitDraw /\ [][NextDraw]_vars

----------------------------------------------------------------------------
(* The running node with its scheduler thread fairly scheduled: while the  *)
(* node runs, the loop of run() goes from one tick to the next.            *)

RunSched ==
    \/ Dequeue \/ Receive \/ Draw
    \/ SendNotConnected \/ SendOk \/ SendFail

SpecFair == InitRun /\ [][NextRun]_vars /\ WF_vars(RunSched)

----------------------------------------------------------------------------
(* Properties *)

Last(s) == s[Len(s)]

EventKinds == {"INTERNAL", "RECEIVE", "SEND"}

\* the INTERNAL, RECEIVE and SEND records of the log, in log order
ClockEvents == SelectSeq(log, LAMBDA e : e.kind \in EventKinds)

Receives == SelectSeq(log, LAMBDA e : e.kind = "RECEIVE")

HasEvent(kind) == \E i \in 1..Len(log) : log[i].kind = kind

\* the step appends exactly one record of one of the kinds ks
Logs(ks) ==
    /\ Len(log') = Len(log) + 1
    /\ SubSeq(log', 1, Len(log)) = log
    /\ Last(log').kind \in ks

\* bs is the decimal text of n: digits only, no leading zero, value n
Decimal(bs, n) ==
    /\ Decodable(bs)
    /\ Len(bs) > 1 => bs[1] # 48
    /\ Decode(bs) = n

\* C1: a call of update_logical_clock on clock c sets the clock to c+1 when
\* no received value is given, and to max(c, r)+1 when r is given.
C1_UpdateRule ==
    [][(pc = "update" /\ pc' = "updated") =>
         IF message = None
         THEN logical_clock' = logical_clock + 1
         ELSE /\ logical_clock' > logical_clock
              /\ logical_clock' > message
              /\ logical_clock' - 1 \in {logical_clock, message}]_vars

C1_Witness == pc = "updated" /\ message = 5 /\ logical_clock = 6

\* C2: in every step of the running node the clock does not decrease, and
\* every step that logs a SEND, RECEIVE or INTERNAL event strictly increases it.
C2_Monotonic ==
    [][/\ logical_clock' >= logical_clock
       /\ Logs(EventKinds) => logical_clock' > logical_clock]_vars

C2_Witness ==
    /\ HasEvent("INTERNAL") /\ HasEvent("RECEIVE") /\ HasEvent("SEND")
    /\ logical_clock >= 3

\* C3: a step of any thread that changes the clock is a step of the
\* scheduler's tick, and sets it either to clock+1 or to max(clock, r)+1 for
\* the message r just dequeued from the node's FIFO; no step of the listener,
\* of a handler, of connect_to_peers or of stop() changes the clock.
C3_SolePath ==
    [][logical_clock' # logical_clock =>
         /\ \/ /\ pc = "qsize"
               /\ message = Last(received)
               /\ logical_clock' = (IF logical_clock >= message
                                    THEN logical_clock ELSE message) + 1
            \/ /\ pc \in {"loop", "send"}
               /\ logical_clock' = logical_clock + 1
         /\ UNCHANGED << listener_pc, handler_pc, stop_pc, it_pos,
                         message_queue, peer_idx, retries, running >>]_vars

C3_Witness ==
    /\ HasEvent("RECEIVE")
    /\ HasEvent("CONNECTED")
    /\ stop_pc["ext"] = "done"
    /\ listener_pc = "exit"
    /\ \E c \in Conns : handler_pc[c] = "closed"
    /\ logical_clock > 1

\* C4: repeated process_message() on a preloaded FIFO dequeues in enqueue
\* order and the i-th RECEIVE carries c_i = max(c_{i-1}, m_i) + 1 with c_0 = 0;
\* draining <<2, 7, 3>> yields 3, 8, 9.
C4_Drain ==
    /\ received \o message_queue = preloaded
    /\ Len(Receives) = Len(received) - (IF pc = "qsize" THEN 1 ELSE 0)
    /\ \A i \in 1..Len(Receives) :
          LET before == IF i = 1 THEN 0 ELSE Receives[i - 1].clock
          IN  Receives[i].clock =
                 (IF before >= preloaded[i] THEN before ELSE preloaded[i]) + 1
    /\ pc = "loop" =>
          logical_clock = (IF Receives = << >> THEN 0 ELSE Last(Receives).clock)
    /\ (preloaded = << 2, 7, 3 >> /\ Len(Receives) = 3) =>
          [i \in 1..3 |-> Receives[i].clock] = << 3, 8, 9 >>

C4_Witness ==
    /\ preloaded = << 2, 7, 3 >>
    /\ message_queue = << >>
    /\ Len(Receives) = 3
    /\ logical_clock = 9

\* C5: the queue length logged by a RECEIVE event equals the number of
\* messages in the FIFO immediately after that event's dequeue, also when
\* handlers enqueue concurrently.
C5_QueueLength ==
    (pc # "qsize" /\ log # << >> /\ Last(log).kind = "RECEIVE") =>
        Last(log).qlen = dequeued_size

\* C6: every step appends at most one record to the log; an appended
\* INTERNAL, RECEIVE or SEND record carries the clock value right after the
\* step's update; the events' clocks increase in log order; and an internal
\* event, the processing of a queued 10 and a successful send, from clock 0,
\* log INTERNAL 1, RECEIVE 11, SEND 12.
C6_Scenario ==
    (/\ [i \in 1..Len(ClockEvents) |-> ClockEvents[i].kind]
           = << "INTERNAL", "RECEIVE", "SEND" >>
     /\ received = << 10 >>
     /\ ~HasEvent("ERR_SEND"))
    => [i \in 1..Len(ClockEvents) |-> ClockEvents[i].clock] = << 1, 11, 12 >>

C6_LogOrder ==
    \A i \in 1..Len(ClockEvents) : \A j \in 1..Len(ClockEvents) :
       i < j => ClockEvents[i].clock < ClockEvents[j].clock

C6_EventClock ==
    /\ [][/\ log' # log => Len(log') = Len(log) + 1 /\ SubSeq(log', 1, Len(log)) = log
          /\ Logs(EventKinds) =>
                /\ Last(log').clock = logical_clock'
                /\ logical_clock' > logical_clock]_vars
    /\ []C6_LogOrder
    /\ []C6_Scenario

C6_Witness ==
    /\ [i \in 1..Len(ClockEvents) |-> ClockEvents[i].kind]
          = << "INTERNAL", "RECEIVE", "SEND" >>
    /\ received = << 10 >>
    /\ ~HasEvent("ERR_SEND")
    /\ logical_clock = 12

\* C7: a send_message on a recorded connection whose write succeeds (no error
\* is logged) advances the clock by one, writes to that peer one payload, the
\* decimal text of the new clock value, and logs a SEND event with that value.
C7_SendOk ==
    [][(/\ pc = "send"
        /\ todo' # todo
        /\ InMap(Head(todo))
        /\ ~Logs({"ERR_SEND"})) =>
         /\ logical_clock' = logical_clock + 1
         /\ Len(sent'[Head(todo)]) = Len(sent[Head(todo)]) + 1
         /\ sent' = [sent EXCEPT ![Head(todo)] = Append(@, Last(sent'[Head(todo)]))]
         /\ Decimal(Last(sent'[Head(todo)]), logical_clock')
         /\ log' = Append(log, Event("SEND", logical_clock', 0, Head(todo)))]_vars

C7_Witness ==
    \E p \in PeerSet :
       /\ sent[p] # << >>
       /\ Last(sent[p]) = << 49, 50 >>
       /\ Last(log).kind = "SEND"
       /\ logical_clock = 12

\* C8: a send_message to a peer with no entry in the peer-connection map logs
\* one error, returns to the tick, and changes neither the clock, nor the map,
\* nor the FIFO, and logs no SEND event.
C8_NotConnected ==
    [][(/\ pc = "send"
        /\ todo' # todo
        /\ ~InMap(Head(todo))) =>
         /\ log' = Append(log, Event("ERR_NOT_CONNECTED", None, 0, Head(todo)))
         /\ pc' \in {"loop", "send"}
         /\ UNCHANGED << logical_clock, peer_connections, message_queue,
                         closed_socks, sent, running >>]_vars

C8_Witness ==
    /\ HasEvent("ERR_NOT_CONNECTED")
    /\ logical_clock > 0
    /\ peer_connections # << >>

\* C9: when the write of a send_message fails (nothing is written), one error
\* is logged, the peer's connection is closed and its entry removed, control
\* returns to the tick, no connection attempt is made, and the entries and
\* connections of the other peers are unchanged.
C9_SendFail ==
    [][(/\ pc = "send"
        /\ todo' # todo
        /\ InMap(Head(todo))
        /\ sent' = sent) =>
         /\ log' = Append(log, Event("ERR_SEND", None, 0, Head(todo)))
         /\ Head(todo) \in closed_socks'
         /\ closed_socks' \ {Head(todo)} = closed_socks \ {Head(todo)}
         /\ peer_connections' = SelectSeq(peer_connections, LAMBDA x : x # Head(todo))
         /\ pc' \in {"loop", "send"}
         /\ UNCHANGED << running, message_queue, peer_idx, retries >>]_vars

C9_Witness ==
    /\ HasEvent("ERR_SEND")
    /\ Len(peer_connections) = 1
    /\ \E p \in PeerSet : p \in closed_socks /\ ~InMap(p)
    /\ \E p \in PeerSet : p \notin closed_socks /\ InMap(p)

\* the node is stopped: flag cleared, listening socket and every recorded
\* connection closed
Stopped ==
    /\ ~running
    /\ ~server_open
    /\ \A i \in 1..Len(peer_connections) : peer_connections[i] \in closed_socks

\* C10: when a stop() returns the node is stopped (flag false, every
\* connection of the map closed, listening socket closed); no stop() raises;
\* and every step of a stop() called on a stopped node leaves the flag, the
\* sockets, the map, the clock, the log and the FIFO as they are.
C10_Stop ==
    /\ [][\A t \in Callers :
            (stop_pc[t] = "iter" /\ stop_pc'[t] = "done") => Stopped']_vars
    /\ [](\A t \in Callers :
            /\ stop_pc[t] # "raised"
            /\ stop_pc[t] = "iter" => it_used[t] = Len(peer_connections))
    /\ [][(Stopped /\ stop_pc' # stop_pc) =>
            /\ Stopped'
            /\ UNCHANGED << running, server_open, closed_socks, peer_connections,
                            logical_clock, log, message_queue >>]_vars

C10_Witness ==
    /\ env_left = 0
    /\ stop_pc["ext"] = "done"
    /\ pc = "exited"
    /\ Len(peer_connections) = 2
    /\ Stopped

\* C11: in every interleaving of an external stop() with the scheduler's
\* tick and the loop's own final stop(), no stop() call raises, and once the
\* scheduler has exited and every stop() call has returned the node is
\* stopped: flag cleared, every remaining connection and the listening
\* socket closed.
C11_ConcurrentStop ==
    /\ \A t \in Callers : stop_pc[t] # "raised"
    /\ (pc \in {"exited", "crashed"} /\ \A t \in Callers : stop_pc[t] # "iter")
          => Stopped

\* C12: a node whose only configured peer is the other node of the pair,
\* running and listening, has when its connect_to_peers() returns exactly one
\* entry in its peer-connection map, keyed by the other node's port; the
\* connection it accepts from the other node adds no entry.
C12_MutualPeers ==
    /\ [][(pc = "connect" /\ pc' = "loop") =>
            /\ Len(peer_connections') = 1
            /\ peer_connections' = peer_ports
            /\ peer_connections'[1] \notin closed_socks']_vars
    /\ [][handler_pc' # handler_pc => peer_connections' = peer_connections]_vars
    /\ [](Len(peer_connections) <= 1)

C12_Witness ==
    /\ pc = "loop"
    /\ ticks_left = MaxTicks
    /\ Len(peer_ports) = 1
    /\ peer_connections = peer_ports
    /\ handler_pc[1] = "recv"

ConnectPcs == {"connect", "retry", "connecting"}

\* the records of the connection attempts made for peer p, in log order
Attempts(p) ==
    SelectSeq(log, LAMBDA e : e.peer = p /\ e.kind \in {"CONNECTED", "ERR_CONNECT"})

Failures(p) == SelectSeq(Attempts(p), LAMBDA e : e.kind = "ERR_CONNECT")

\* C13: connect_to_peers() makes at most 5 attempts per configured peer; a
\* successful attempt is the last one for its peer and records the
\* connection; after 5 failed attempts the peer has no entry and the call
\* moves on to the next peer; and the call terminates.
C13_Attempts ==
    \A p \in PeerSet :
       /\ Len(Attempts(p)) <= Retries
       /\ \A i \in 1..Len(Attempts(p)) :
             Attempts(p)[i].kind = "CONNECTED" => i = Len(Attempts(p))
       /\ pc \in ConnectPcs =>
             (InMap(p) <=> Len(Failures(p)) < Len(Attempts(p)))

C13_Retry ==
    /\ []C13_Attempts
    /\ [](pc = "connecting" => retries \in 1..Retries)
    /\ [][(pc = "connecting" /\ peer_connections' # peer_connections) =>
            /\ peer_connections' = Append(peer_connections, peer_ports[peer_idx])
            /\ pc' = "connect"
            /\ peer_idx' = peer_idx + 1]_vars
    /\ [][(pc = "retry" /\ pc' = "connect") =>
            /\ Len(Failures(peer_ports[peer_idx])) = Retries
            /\ ~InMap(peer_ports[peer_idx])
            /\ peer_idx' = peer_idx + 1
            /\ peer_connections' = peer_connections]_vars
    /\ <>(pc = "loop")

C13_Witness ==
    /\ pc = "loop"
    /\ ticks_left = MaxTicks
    /\ Len(Failures(peer_ports[1])) = Retries
    /\ ~InMap(peer_ports[1])
    /\ Len(Failures(peer_ports[2])) = Retries - 1
    /\ InMap(peer_ports[2])

AllConnected == \A i \in 1..Len(peer_ports) : InMap(peer_ports[i])

\* C14: connect_to_peers() makes no attempt for a peer that has an entry: it
\* steps over it and leaves map, sockets and log as they are; so no step of a
\* call made when every peer is connected changes anything but the call's
\* own position.
C14_Idempotent ==
    /\ [](pc \in {"retry", "connecting"} => ~InMap(peer_ports[peer_idx]))
    /\ [][(/\ pc = "connect"
           /\ peer_idx <= Len(peer_ports)
           /\ InMap(peer_ports[peer_idx])) =>
            /\ pc' = "connect"
            /\ peer_idx' = peer_idx + 1
            /\ UNCHANGED << peer_connections, closed_socks, sent, log >>]_vars
    /\ [][AllConnected =>
            /\ pc' \in {"connect", "loop"}
            /\ UNCHANGED << peer_connections, closed_socks, server_open, sent,
                            log, logical_clock, message_queue, running,
                            retries, env_left >>]_vars

C14_Witness ==
    /\ pc = "connect"
    /\ peer_idx = Len(peer_ports) + 1
    /\ Len(peer_connections) = Len(peer_ports)
    /\ log = ConnectLog(peer_ports, PeerSet)
    /\ closed_socks = {}

\* C15: the peer-connection map holds at most one entry per peer port, and
\* never holds a closed connection: an entry whose connection is closed, by
\* the scheduler on a write failure or by stop() at shutdown, is removed.
C15_LiveEntries ==
    /\ \A i \in 1..Len(peer_connections) : \A j \in 1..Len(peer_connections) :
          peer_connections[i] = peer_connections[j] => i = j
    /\ \A i \in 1..Len(peer_connections) : peer_connections[i] \notin closed_socks

\* C16: once connect_to_peers() has returned inside run(), no step adds an
\* entry to the peer-connection map or makes a connection attempt; a peer
\* given up after the retry budget or pruned after a write failure stays
\* without an entry, and every send to it logs an error and sends nothing.
C16_NoReconnect ==
    /\ [][pc \notin (ConnectPcs \cup {"init"}) =>
            /\ \A p \in PeerSet :
                  /\ ~InMap(p) => ~InMap(p)'
                  /\ Attempts(p)' = Attempts(p)
            /\ pc' \notin (ConnectPcs \cup {"init"})]_vars
    /\ [][(pc = "send" /\ todo' # todo /\ ~InMap(Head(todo))) =>
            /\ Logs({"ERR_NOT_CONNECTED"})
            /\ Last(log').peer = Head(todo)
            /\ sent' = sent]_vars

C16_Witness ==
    /\ Len(Failures(peer_ports[2])) = Retries
    /\ HasEvent("ERR_SEND")
    /\ peer_connections = << >>
    /\ \A p \in PeerSet :
          \E i \in 1..Len(log) :
             log[i].kind = "ERR_NOT_CONNECTED" /\ log[i].peer = p

IsPrefix(s, t) == Len(s) <= Len(t) /\ SubSeq(t, 1, Len(s)) = s

\* C17: every message written by one send is decoded by the receiving
\* handler as exactly one message of the same value: on each connection the
\* values decoded so far are the first values written, one for one, however
\* the stream cuts the reads.
C17_OneDecodeOneSend ==
    \A c \in Conns : IsPrefix(reads[c], written[c])

Values(es) == [i \in 1..Len(es) |-> es[i].value]

FromConn(es, c) == SelectSeq(es, LAMBDA e : e.conn = c)

\* C18: the values a handler read are put on the FIFO in the order read, and
\* process_message takes them in the order put: the messages processed so
\* far followed by those still queued are the puts in their order, and those
\* of one connection are in the order its handler read them.
C18_PerConnectionOrder ==
    /\ received \o message_queue = Values(enqueued)
    /\ \A c \in Conns : Values(FromConn(enqueued, c)) = reads[c]

\* the message of connection 2 is processed before that of connection 1
C18_Witness ==
    /\ Len(received) >= 2
    /\ enqueued[1].conn = 2
    /\ enqueued[2].conn = 1

\* the other order between the same two connections
C18_OtherOrder ==
    /\ Len(received) >= 2
    /\ enqueued[1].conn = 1
    /\ enqueued[2].conn = 2

\* the handler of c has made a recv() in this step
Recv(c) == Len(wire_in'[c]) < Len(wire_in[c]) \/ handler_pc'[c] # handler_pc[c]

\* C19: a read that is empty or does not decode as an integer puts nothing
\* on the FIFO and ends its handler, whose socket is closed; nothing else
\* changes: the node runs, the listener accepts, the other handlers and the
\* scheduler are where they were; and a handler ends on such a read only.
C19_HandlerFailure ==
    [][\A c \in Conns :
          Recv(c) =>
             IF Decodable(data'[c])
             THEN /\ handler_pc'[c] = "recv"
                  /\ enqueued' = Append(enqueued, [conn |-> c, value |-> Decode(data'[c])])
             ELSE /\ handler_pc'[c] = "closed"
                  /\ enqueued' = enqueued
                  /\ message_queue' = message_queue
                  /\ running' /\ running
                  /\ listener_pc' = "accept" /\ server_open'
                  /\ \A d \in Conns \ {c} : handler_pc'[d] = handler_pc[d]
                  /\ << pc, logical_clock, schedLocals, sockVars >>' =
                        << pc, logical_clock, schedLocals, sockVars >>]_vars

\* one handler ended on an empty read, one on a payload that does not
\* decode, and the scheduler has processed a message after the error
C19_Witness ==
    /\ \E c \in Conns : handler_pc[c] = "closed" /\ data[c] = << >>
    /\ \E c \in Conns : handler_pc[c] = "closed" /\ data[c] # << >>
    /\ \E i \in 1..Len(log) : \E j \in (i + 1)..Len(log) :
          log[i].kind = "ERR_HANDLER" /\ log[j].kind = "RECEIVE"

LoopPcs == {"loop", "qsize", "send"}

\* the scheduler's loop is over and its finally clause has called stop()
LoopOver == pc \in {"finally", "exited", "crashed"} /\ stop_pc["sched"] # "idle"

\* the listener's loop and every handler's loop are over
InboundOver ==
    /\ listener_pc = "exit"
    /\ \A c \in Conns : handler_pc[c] \in {"none", "closed"}

\* C20: once run() is under way and the running flag is cleared, under fair
\* scheduling the scheduler's loop is eventually left, the listener's loop
\* and every handler's loop are eventually left, and whenever the
\* scheduler's loop is left, by its test or by an exception, stop() is
\* called.
C20_Termination ==
    /\ (~running /\ pc # "init") ~> (LoopOver /\ InboundOver)
    /\ [][(pc \in (LoopPcs \cup ConnectPcs) /\ pc' \notin (LoopPcs \cup ConnectPcs)) =>
            (pc' = "finally" /\ stop_pc'["sched"] = "iter" /\ ~running')]_vars

\* an external stop() cleared the flag of the running node; the scheduler
\* has left its loop and returned from its own stop(), and the listener and
\* a handler have left theirs
C20_Witness ==
    /\ stop_pc["ext"] = "done"
    /\ HasEvent("CONNECTED")
    /\ pc = "exited"
    /\ LoopOver
    /\ InboundOver
    /\ \E c \in Conns : handler_pc[c] = "closed"

\* the scheduler begins a tick in this step
TickStart == ticks_left' # ticks_left

\* C21: a tick that finds the FIFO non-empty takes exactly its oldest
\* message, advances the clock with it and writes one RECEIVE record, and
\* that is all the tick does: no send, no internal event; an action is
\* drawn only by a tick that found the FIFO empty.
C21_ReceiveIsTheTick ==
    /\ [][TickStart =>
            IF message_queue # << >>
            THEN /\ message' = Head(message_queue)
                 /\ message_queue' = Tail(message_queue)
                 /\ pc' = "qsize"
                 /\ << logical_clock, log, sent, todo >>' =
                       << logical_clock, log, sent, todo >>
            ELSE /\ pc' \in {"send", "loop"}
                 /\ message_queue' = message_queue]_vars
    /\ [][(pc = "qsize" /\ pc' # "qsize") =>
            /\ pc' = "loop"
            /\ logical_clock' = update_logical_clock(logical_clock, message)
            /\ \E q \in 0..MaxQueue :
                  log' = Append(log, Event("RECEIVE", logical_clock', q, 0))
            /\ << sent, todo >>' = << sent, todo >>]_vars
    /\ [][(pc' = "send" /\ pc = "loop") \/ Logs({"INTERNAL"}) =>
            message_queue = << >>]_vars

\* a tick ended with its RECEIVE record while a second message was queued,
\* after an earlier tick had drawn an action
C21_Witness ==
    /\ pc = "loop"
    /\ Last(log).kind = "RECEIVE"
    /\ message_queue # << >>
    /\ \E i \in 1..Len(log) : log[i].kind \in {"INTERNAL", "SEND"}

\* C22: a tick with an empty FIFO that draws 1 sends to the first configured
\* peer; with no peer configured it does nothing: no send, no internal
\* event, the clock as it was.
C22_DrawOne ==
    [][DrawAction(1) =>
          IF peer_ports # << >>
          THEN /\ todo' = << peer_ports[1] >>
               /\ pc' = "send"
               /\ << logical_clock, log >>' = << logical_clock, log >>
          ELSE /\ pc' = "loop"
               /\ << logical_clock, log, sent >>' = << logical_clock, log, sent >>]_vars

\* the calls of send_message a tick makes, in order, as the spec gives them
\* for a draw d with at least one peer configured
Sends(d) ==
    IF d = 1 THEN << peer_ports[1] >>
    ELSE IF d = 2 THEN (IF Len(peer_ports) >= 2 THEN << peer_ports[2] >>
                                               ELSE << peer_ports[1] >>)
    ELSE IF d = 3 THEN peer_ports
    ELSE << >>

\* C23: with an empty FIFO and at least one peer configured, the tick's
\* action is a function of its draw d: 1 is one send to the first peer, 2
\* one send to the second peer if there are two and else to the first, 3 one
\* send to each peer in list order, and 4..10 one internal event (the clock
\* plus one, one INTERNAL record) and no send; each send is one call of
\* send_message on the next peer of the tick.
C23_DrawTable ==
    /\ [][\A d \in RandLo..RandHi :
             (DrawAction(d) /\ peer_ports # << >>) =>
                IF d \in 1..3
                THEN /\ todo' = Sends(d)
                     /\ pc' = "send"
                     /\ << logical_clock, log, sent >>' = << logical_clock, log, sent >>
                ELSE /\ todo' = << >>
                     /\ pc' = "loop"
                     /\ logical_clock' = logical_clock + 1
                     /\ log' = Append(log, Event("INTERNAL", logical_clock + 1, 0, 0))
                     /\ sent' = sent]_vars
    /\ [][(pc = "send" /\ todo' # todo) =>
             /\ todo' = Tail(todo)
             /\ pc' = IF todo' = << >> THEN "loop" ELSE "send"
             /\ Logs({"ERR_NOT_CONNECTED", "SEND", "ERR_SEND"})
             /\ Last(log').peer = Head(todo)]_vars

\* two peers are configured; a tick drew an internal event, a later one sent
\* to the second peer alone
C23_Witness ==
    /\ Len(peer_ports) = 2
    /\ pc = "loop"
    /\ Len(log) >= 2
    /\ \E i \in 1..(Len(log) - 1) : log[i].kind = "INTERNAL"
    /\ Last(log).kind \in {"SEND", "ERR_SEND", "ERR_NOT_CONNECTED"}
    /\ Last(log).peer = peer_ports[2]
    /\ \A i \in 1..Len(log) :
          log[i].kind \in {"SEND", "ERR_SEND", "ERR_NOT_CONNECTED"}
             => log[i].peer # peer_ports[1]

\* C24: a broadcast tick (draw 3) attempts a send to every configured peer
\* in list order; a send that fails or finds no connection is logged and the
\* tick goes on with the next peer of the list; the tick ends in the loop
\* only when the list is exhausted, and no exception leaves it.
C24_Broadcast ==
    /\ [][(DrawAction(3) /\ peer_ports # << >>) => todo' = peer_ports]_vars
    /\ [][(pc = "send" /\ Logs({"ERR_SEND", "ERR_NOT_CONNECTED"})) =>
             /\ Last(log').peer = Head(todo)
             /\ todo' = Tail(todo)
             /\ IF Tail(todo) # << >>
                THEN pc' = "send"
                ELSE pc' = "loop"]_vars
    /\ [](pc \in {"loop", "send"})
    /\ [](pc = "send" =>
             \/ todo = peer_ports /\ todo # << >>
             \/ Len(todo) = 1 /\ \E i \in 1..Len(peer_ports) : todo[1] = peer_ports[i])
    /\ [](pc = "loop" => todo = << >>)

\* the only tick so far was a broadcast to two peers: the send to the first
\* failed or found no connection, the send to the second was written
C24_Witness ==
    /\ Len(peer_ports) = 2
    /\ ticks_left = DrawTicks - 1
    /\ pc = "loop"
    /\ Len(log) >= 2
    /\ log[Len(log) - 1].kind \in {"ERR_SEND", "ERR_NOT_CONNECTED"}
    /\ log[Len(log) - 1].peer = peer_ports[1]
    /\ Last(log).kind = "SEND"
    /\ Last(log).peer = peer_ports[2]

\* C25: an accept failure while the node runs is logged and the listener
\* goes on accepting; an accepted connection gets one handler, started by
\* the listener; once the node is stopping the listener's loop ends and
\* nothing is logged for it.
C25_Listener ==
    /\ [][Logs({"ERR_ACCEPT"}) =>
             /\ running /\ running'
             /\ listener_pc = "accept" /\ listener_pc' = "accept"
             /\ handler_pc' = handler_pc]_vars
    /\ [][(listener_pc = "accept" /\ listener_pc' # "accept") =>
             /\ ~running
             /\ listener_pc' = "exit"
             /\ log' = log]_vars
    /\ [][\A c \in Conns :
             /\ (handler_pc[c] = "none" /\ handler_pc'[c] # "none") =>
                   /\ listener_pc = "accept" /\ running /\ server_open
                   /\ handler_pc'[c] = "recv"
                   /\ \A d \in Conns \ {c} : handler_pc'[d] = handler_pc[d]
             /\ handler_pc[c] # "none" => handler_pc'[c] \in {handler_pc[c], "closed"}]_vars
    /\ [](listener_pc = "exit" => ~running)

\* an accept failure was logged and the listener is still in its loop, the
\* node running, a handler it started earlier still reading
C25_Witness ==
    /\ HasEvent("ERR_ACCEPT")
    /\ listener_pc = "accept"
    /\ running
    /\ \E c \in Conns : handler_pc[c] = "recv"

\* the node was stopped and the listener has left its loop with no record
C25_Stopping ==
    /\ listener_pc = "exit"
    /\ ~server_open
    /\ ~HasEvent("ERR_ACCEPT")

\* the place among the puts of its connection of the i-th put on the FIFO
Rank(i) == Len(FromConn(SubSeq(enqueued, 1, i), enqueued[i].conn))

\* C26: for every message a peer sent to the node, the node's clock at the
\* RECEIVE event of that message is strictly greater than the peer's clock
\* at its SEND event (the value the peer wrote); the k-th message decoded
\* from a connection is the k-th message written on it.
C26_ClockCondition ==
    \A i \in 1..Len(Receives) :
       Rank(i) <= Len(written[enqueued[i].conn]) =>
          Receives[i].clock > written[enqueued[i].conn][Rank(i)]

\* the clock of a node started at 0 after the first i records of its log:
\* a clock event carries it, a failed write has advanced it by one
RECURSIVE ClockAfter(_)
ClockAfter(i) ==
    IF i = 0 THEN 0
    ELSE IF log[i].kind \in EventKinds THEN log[i].clock
    ELSE IF log[i].kind = "ERR_SEND" THEN ClockAfter(i - 1) + 1
    ELSE ClockAfter(i - 1)

SendsTo(p) == SelectSeq(log, LAMBDA e : e.kind = "SEND" /\ e.peer = p)

\* C27: a send_message on a peer with a recorded connection advances the
\* clock by exactly one whether the write succeeds or fails; a SEND record
\* is written only for a write that succeeds, and carries the value written;
\* so the sends of a broadcast carry consecutive values, and the value a
\* failed write leaves on the clock is in no record of the log.
C27_SendTicks ==
    /\ [][(pc = "send" /\ todo' # todo /\ InMap(Head(todo))) =>
             /\ logical_clock' = logical_clock + 1
             /\ \/ /\ Logs({"SEND"})
                   /\ Last(log').clock = logical_clock'
                   /\ sent' = [sent EXCEPT ![Head(todo)] = Append(@, Encode(logical_clock'))]
                \/ /\ Logs({"ERR_SEND"})
                   /\ sent' = sent]_vars
    /\ [](ClockAfter(Len(log)) = logical_clock)
    /\ [](\A p \in PeerSet :
             /\ Len(SendsTo(p)) = Len(sent[p])
             /\ \A k \in 1..Len(sent[p]) : Decode(sent[p][k]) = SendsTo(p)[k].clock)
    /\ [](\A i \in 1..Len(log) :
             /\ log[i].kind = "SEND" => log[i].clock = ClockAfter(i - 1) + 1
             /\ log[i].kind = "ERR_SEND" =>
                   \A j \in 1..Len(log) : log[j].clock # ClockAfter(i))

\* a broadcast wrote consecutive values to the two peers, and in a later
\* broadcast the write to the first failed and the second peer received the
\* value after the one that is in no record
C27_Witness ==
    /\ \E i \in 1..(Len(log) - 1) :
          /\ log[i].kind = "SEND" /\ log[i + 1].kind = "SEND"
          /\ log[i].peer # log[i + 1].peer
          /\ log[i + 1].clock = log[i].clock + 1
    /\ \E i \in 1..(Len(log) - 1) :
          /\ log[i].kind = "ERR_SEND" /\ log[i + 1].kind = "SEND"
          /\ log[i + 1].clock = ClockAfter(i - 1) + 2

\* the number of messages put on the FIFO so far
Enqueued == Len(received) + Len(message_queue)

\* the observed run is long enough for every message that is queued or can
\* still arrive: a tick is left for each
TicksSuffice == ticks_left >= Len(message_queue) + env_left

\* C28: while the node runs and its scheduler is fairly scheduled, every
\* message put on the FIFO is eventually taken and processed as a RECEIVE
\* event; a tick takes at most one, and a tick that starts with a message
\* pending makes no send and no internal event.
C28_EventuallyReceived ==
    /\ \A n \in 1..RunMsgs :
          (Enqueued >= n /\ TicksSuffice) ~> (Len(Receives) >= n)
    /\ [][TickStart => Len(message_queue') >= Len(message_queue) - 1]_vars
    /\ [][(TickStart /\ message_queue # << >>) =>
             /\ pc' = "qsize"
             /\ << log, sent, logical_clock >>' = << log, sent, logical_clock >>]_vars
    /\ [][Len(received') > Len(received) => TickStart]_vars
    /\ [](running /\ Len(Receives) <= Len(received))

\* two messages were pending together and each was processed in a tick of
\* its own
C28_Witness ==
    /\ Len(Receives) >= 2
    /\ message_queue = << >>
    /\ \E i \in 1..Len(Receives) : Receives[i].qlen >= 1
    /\ ticks_left <= RunTicks - 2

====
